---------------------------- MODULE Spec2Model ----------------------------
(***************************************************************************)
(* A model of the utility core of lib/internal/util.js:                    *)
(*   - defineLazyProperties / defineReplaceableLazyAttribute (lazy,        *)
(*     self-memoizing accessors bound to a module loaded on first read),   *)
(*   - class WeakReference (a WeakRef with a manual reference count).      *)
(* JavaScript values are modelled as strings: "1", "2", ... are ordinary   *)
(* values, Undefined and Null are the two nullish values.                  *)
(***************************************************************************)
EXTENDS Integers, Sequences, FiniteSets, TLC

Undefined == "undefined"
Null == "null"
None == "none"          \* "no value recorded": used by history variables only
ReadFirst == "readFirst" \* history: the slot was read first and never written
Overwritten == "overwritten" \* history: the slot was read first and written later

(***************************************************************************)
(* Bounds of the model.                                                    *)
(***************************************************************************)
MaxThrows == 1          \* how often require(id) may throw in one behaviour
MaxCalls == 6           \* how many incRef/decRef calls one behaviour makes

(***************************************************************************)
(* The loader interface: require(id) resolves a module identifier to a     *)
(* mapping from keys to values, or throws.  M is the module of the         *)
(* scenario {foo: 1, bar: 2}; it has no export "baz" (M.baz is undefined). *)
(* N is {baz: 3}.                                                          *)
(***************************************************************************)
Ids == {"M", "N"}
Keys == {"foo", "bar", "baz"}

ModuleExports(i) ==
    IF i = "M"
    THEN [k \in Keys |-> CASE k = "foo" -> "1" [] k = "bar" -> "2" [] OTHER -> Undefined]
    ELSE [k \in Keys |-> CASE k = "baz" -> "3" [] OTHER -> Undefined]

\* mod[key] of a getter whose closure holds the key of another iteration of the loop
ModGet_OtherKey(m, k) == ModuleExports(m)[IF k = "foo" THEN "bar" ELSE "foo"]

\* mod[key] for the loaded module object mod (a module object is named by its id)
ModGet(m, k) == ModuleExports(m)[k]

(***************************************************************************)
(* The registrations made at construction.  Batches 1 and 2 are two calls  *)
(* of defineLazyProperties (each with its own closure variable `mod`),     *)
(* batch 3 is one call of defineReplaceableLazyAttribute.  Each call has   *)
(* a target object of its own.                                             *)
(***************************************************************************)
LazyBatches == {1, 2}
ReplBatch == 3
Batches == LazyBatches \cup {ReplBatch}

BatchKeys(b) ==
    CASE b = 1 -> {"foo", "bar"}
      [] b = 2 -> {"baz"}
      [] OTHER -> {"baz"}

LazySlots == {s \in (LazyBatches \X Keys) : s[2] \in BatchKeys(s[1])}
ReplSlots == {s \in ({ReplBatch} \X Keys) : s[2] \in BatchKeys(s[1])}
Slots == LazySlots \cup ReplSlots
FirstBatchSlots == {s \in LazySlots : s[1] = 1}

\* the values user code assigns to a lazy property
WriteVals == {"7", Undefined}

VARIABLES
    \* ---- defineLazyProperties / defineReplaceableLazyAttribute
    id,               \* id[b]: the loader identifier batch b was registered with
    mod,              \* mod[b]: the closure variable `mod` of batch b
    lazyLoadedValue,  \* lazyLoadedValue[s]: closure variable of a lazy slot
    prop,             \* prop[s]: the property descriptor of target[key]
    value,            \* value[s]: closure variable of a replaceable slot
    setterCalled,     \* setterCalled[s]: closure variable of a replaceable slot
    writable,         \* the `writable` argument of defineReplaceableLazyAttribute
    check,            \* whether a `check` callback was given
    ret,              \* how the last property read ended
    \* history (not program state)
    loads,            \* loads[b]: calls of require(id) by batch b that returned
    throws,           \* throws[b]: calls of require(id) by batch b that threw
    lastValue,        \* lastValue[s]: the value the last read of s returned (None: s
                      \* was not read since it was last written)
    extValue,         \* extValue[s]: value last written to s, if s was written before
                      \* its first successful read (None: untouched; ReadFirst,
                      \* Overwritten: its first access was a successful read)
    rlast,            \* the last read of a replaceable slot: what the slot held, whether
                      \* the check callback ran, whether require(id) was called
    reread,           \* whether the last read was of a slot that had been read since
                      \* it was last written
    \* ---- WeakReference
    refCount,         \* #refCount
    strong,           \* #strong
    alive,            \* whether the target of #weak has not been collected
    extRefs,          \* whether some other strong path to the target exists
    wret,             \* value returned by the last incRef/decRef
    gret,             \* value returned by the last get()
    calls,            \* history: the incRef/decRef calls made, with their results
    aliveAtIncFromZero, \* history: liveness at the most recent increment from zero
    \* ---- promisify
    pfn,              \* how the last call of promisify ended, and what it returned
    marker,           \* descriptor of the marker property of the custom implementation
    promise,          \* the promise returned by the last call of the adapter
    gout,             \* how the last call of the function promisify returned ended
    gcalls,           \* calls made of functions returned by promisify
    dep0174,          \* calls of process.emitWarning with code DEP0174
    \* history (not program state)
    first,            \* the first event that settled `promise`
    latest,           \* the latest event that settled `promise` or came too late to
    origCalls,        \* applications of `original` by the adapter promisify returned
    cbCount,          \* invocations of the injected callback after the call returned
    promiseReturns,   \* calls of the adapter in which `original` returned a promise
    \* ---- deprecate
    noDeprecation,    \* process.noDeprecation
    warned,           \* warned[w]: closure variable `warned` of the emitter of wrapper w
    codesWarned,      \* the module-level set codesWarned
    dlast,            \* the last invocation of a wrapper and how it ended (run: how
                      \* many invocations of it, made with the flag set, precede it
                      \* without another invocation in between)
    \* history (not program state)
    emitted,          \* emitted[w]: calls of the warning sink made for wrapper w
    invokedUnset,     \* invokedUnset[w]: invocations of w made with the flag unset
    invokes,          \* invocations of wrappers made so far
    \* ---- pendingDeprecate
    optPending,       \* what getOptionValue('--pending-deprecation') returns
    optNoDeprecation, \* what getOptionValue('--no-deprecation') returns
    plast,            \* history: the last invocation of a wrapper of pendingDeprecate
    \* ---- convertToValidSignal
    signalsToNamesMapping, \* the module-level cache of getSignalsToNamesMapping
    sigIn,            \* history: the argument of the last call
    sigOut,           \* how the last call ended
    sigPrevIn,        \* history: the argument of the call before the last
    sigPrevOut,       \* history: how the call before the last ended
    \* ---- SyncWriteStream
    sfd,              \* this.fd
    autoClose,        \* this.autoClose
    dcb,              \* the invocations of its callback the last _destroy made
    wcb,              \* the invocations of its callback the last _write made
    \* history (not program state)
    closes,           \* calls of closeSync that returned
    closeFailed,      \* whether a call of closeSync threw
    destroys,         \* calls of _destroy
    destroyErr        \* the err argument of the last _destroy

lazyVars == <<id, mod, lazyLoadedValue, prop, value, setterCalled, writable, check,
              ret, loads, throws, lastValue, extValue, reread, rlast>>
weakVars == <<refCount, strong, alive, extRefs, wret, gret, calls, aliveAtIncFromZero>>
promVars == <<pfn, marker, promise, gout, gcalls, dep0174, first, latest, origCalls, cbCount,
              promiseReturns>>
depVars == <<noDeprecation, warned, codesWarned, dlast, emitted, invokedUnset, invokes>>
pendVars == <<optPending, optNoDeprecation, plast>>
sigVars == <<signalsToNamesMapping, sigIn, sigOut, sigPrevIn, sigPrevOut>>
streamVars == <<sfd, autoClose, dcb, wcb, closes, closeFailed, destroys, destroyErr>>
vars == <<lazyVars, weakVars, promVars, depVars, pendVars, sigVars, streamVars>>

(***************************************************************************)
(* Property descriptors, and the outcome of a property read.               *)
(***************************************************************************)
Accessor == [kind |-> "accessor", value |-> Undefined, writable |-> FALSE]
DataProp(v) == [kind |-> "data", value |-> v, writable |-> TRUE]

\* how a read ends: it returns (its value is then lastValue[s]), or it throws what
\* require(id) or the check callback threw
Returned == "return"
ThrewRequire == "throw:require"
ThrewCheck == "throw:check"

RECURSIVE SumOver(_, _)
SumOver(f, S) == IF S = {} THEN 0
                 ELSE LET x == CHOOSE y \in S : TRUE IN f[x] + SumOver(f, S \ {x})

\* calls of require(id) made so far by batch b
RequireCalls(b) == loads[b] + throws[b]

(***************************************************************************)
(* defineLazyProperties(target, id, keys): the state its loop leaves.      *)
(***************************************************************************)
LazyInit ==
    /\ id \in {f \in [Batches -> Ids] : f[1] = "M" /\ f[ReplBatch] = "N"}
    /\ mod = [b \in Batches |-> Undefined]
    /\ lazyLoadedValue = [s \in LazySlots |-> Undefined]
    /\ prop = [s \in LazySlots |-> Accessor]
    /\ value = [s \in ReplSlots |-> Undefined]
    /\ setterCalled = [s \in ReplSlots |-> FALSE]
    /\ writable \in BOOLEAN
    /\ check \in BOOLEAN
    /\ ret = Returned
    /\ loads = [b \in Batches |-> 0]
    /\ throws = [b \in Batches |-> 0]
    /\ lastValue = [s \in Slots |-> None]
    /\ extValue = [s \in Slots |-> None]
    /\ reread = FALSE
    /\ rlast = [phase |-> None, checked |-> FALSE, loaded |-> FALSE]

\* history bookkeeping of extValue: a successful read of an untouched slot, a write
FirstRead(e, s) == [e EXCEPT ![s] = IF @ = None THEN ReadFirst ELSE @]
Written(e, s, v) ==
    [e EXCEPT ![s] = IF @ \in {ReadFirst, Overwritten} THEN Overwritten ELSE v]

\* the guard `lazyLoadedValue === undefined` of get()
NotYetLoaded(llv) == llv = Undefined

\* `mod ??= require(id)`: require is called only while mod is undefined
NeedLoad_Always(m) == TRUE
NeedLoad(m) == m = Undefined

\* require(id) throws and the module counts as loaded all the same
RequireThrows_Caches(b) ==
    /\ SumOver(throws, Batches) < MaxThrows
    /\ throws' = [throws EXCEPT ![b] = @ + 1]
    /\ ret' = ThrewRequire
    /\ mod' = [mod EXCEPT ![b] = id[b]]
    /\ UNCHANGED <<loads, lazyLoadedValue, prop, value, lastValue, extValue>>

\* require(id) throws: nothing but the history changes
RequireThrows(b) ==
    /\ SumOver(throws, Batches) < MaxThrows
    /\ throws' = [throws EXCEPT ![b] = @ + 1]
    /\ ret' = ThrewRequire
    /\ UNCHANGED <<mod, loads, lazyLoadedValue, prop, value, lastValue, extValue>>

\* set(value) of a variant that leaves the accessor in place for an absent value
Set_SkipUndefined(p, s, v) == IF v = Undefined THEN p ELSE [p EXCEPT ![s] = DataProp(v)]

\* function set(value) of defineLazyProperties: Object.defineProperty(target, key,
\* {writable: true, value}) turns the property into a plain writable value
Set(p, s, v) == [p EXCEPT ![s] = DataProp(v)]

\* A read of target[key] for a slot of defineLazyProperties.  A data property is
\* read without calling any function; an accessor property calls get().
LazyRead(s) ==
    /\ s \in LazySlots
    /\ reread' = (lastValue[s] # None)
    /\ UNCHANGED <<id, setterCalled, writable, check, rlast, weakVars, promVars, depVars, pendVars, sigVars, streamVars>>
    /\ IF prop[s].kind = "data"
       THEN /\ ret' = Returned
            /\ lastValue' = [lastValue EXCEPT ![s] = prop[s].value]
            /\ extValue' = FirstRead(extValue, s)
            /\ UNCHANGED <<mod, lazyLoadedValue, prop, value, loads, throws>>
       ELSE \E ok \in BOOLEAN :
            LET b == s[1]
                needLoad == NeedLoad(mod[b])
                m == IF needLoad THEN id[b] ELSE mod[b]
                v == IF NotYetLoaded(lazyLoadedValue[s])
                     THEN ModGet(m, s[2]) ELSE lazyLoadedValue[s]
            IN  IF needLoad /\ ~ok
                THEN RequireThrows(b)
                ELSE /\ ok
                     /\ mod' = [mod EXCEPT ![b] = m]
                     /\ loads' = [loads EXCEPT ![b] = IF needLoad THEN @ + 1 ELSE @]
                     /\ lazyLoadedValue' = [lazyLoadedValue EXCEPT ![s] = v]
                     /\ prop' = IF NotYetLoaded(lazyLoadedValue[s])
                                THEN Set(prop, s, v) ELSE prop
                     /\ ret' = Returned
                     /\ lastValue' = [lastValue EXCEPT ![s] = v]
                     /\ extValue' = FirstRead(extValue, s)
                     /\ UNCHANGED <<throws, value>>

\* An assignment target[key] = v for a slot of defineLazyProperties: the accessor's
\* set(v), or a plain store once the property is a writable data property.
LazyWrite(s, v) ==
    /\ s \in LazySlots
    /\ prop' = Set(prop, s, v)
    /\ lastValue' = [lastValue EXCEPT ![s] = None]
    /\ extValue' = Written(extValue, s, v)
    /\ UNCHANGED <<id, mod, lazyLoadedValue, value, setterCalled, writable, check,
                   ret, loads, throws, reread, rlast, weakVars, promVars, depVars, pendVars, sigVars, streamVars>>

(***************************************************************************)
(* defineReplaceableLazyAttribute(target, id, keys, writable, check).      *)
(***************************************************************************)
\* `x ??= y`: y is assigned (and evaluated) only when x is null or undefined
Nullish(x) == x = Undefined \/ x = Null

\* `if (setterCalled) return value;`: a set value bypasses the loader
UseSetValue_Never(sc) == FALSE
UseSetValue(sc) == sc

CheckRuns_Never(c) == FALSE
\* if (check !== undefined) FunctionPrototypeCall(check, this)
CheckRuns(c) == c

\* what the slot holds when it is read: a value the setter stored, a value resolved
\* from the module, or nothing yet
ReadPhase(s) ==
    IF setterCalled[s] THEN "set"
    ELSE IF ~Nullish(value[s]) THEN "resolved"
    ELSE "unresolved"

\* A read of target[key] for a slot of defineReplaceableLazyAttribute: get().
\* The check callback, when given, either returns or throws.
ReplRead(s) ==
    /\ s \in ReplSlots
    /\ reread' = (lastValue[s] # None)
    /\ UNCHANGED <<id, lazyLoadedValue, prop, setterCalled, writable, check, weakVars, promVars, depVars, pendVars, sigVars, streamVars>>
    /\ \E checkOk \in BOOLEAN, ok \in BOOLEAN :
       LET b == s[1]
           needLoad == NeedLoad(mod[b])
           m == IF needLoad THEN id[b] ELSE mod[b]
           v == IF Nullish(value[s]) THEN ModGet(m, s[2]) ELSE value[s]
       IN  /\ rlast' = [phase |-> ReadPhase(s), checked |-> CheckRuns(check),
                        loaded |-> /\ ~(CheckRuns(check) /\ ~checkOk)
                                   /\ ~UseSetValue(setterCalled[s])
                                   /\ needLoad]
           /\ IF CheckRuns(check) /\ ~checkOk
              THEN /\ ok                                    \* the check threw
                   /\ ret' = ThrewCheck
                   /\ UNCHANGED <<mod, value, loads, throws, lastValue, extValue>>
              ELSE /\ checkOk
                   /\ IF UseSetValue(setterCalled[s])
                      THEN /\ ok
                           /\ ret' = Returned
                           /\ lastValue' = [lastValue EXCEPT ![s] = value[s]]
                           /\ extValue' = FirstRead(extValue, s)
                           /\ UNCHANGED <<mod, value, loads, throws>>
                      ELSE IF needLoad /\ ~ok
                      THEN RequireThrows(b)
                      ELSE /\ ok
                           /\ mod' = [mod EXCEPT ![b] = m]
                           /\ loads' = [loads EXCEPT ![b] = IF needLoad THEN @ + 1 ELSE @]
                           /\ value' = [value EXCEPT ![s] = v]
                           /\ ret' = Returned
                           /\ lastValue' = [lastValue EXCEPT ![s] = v]
                           /\ extValue' = FirstRead(extValue, s)
                           /\ UNCHANGED throws

\* An assignment target[key] = v for a slot of defineReplaceableLazyAttribute: set(v)
\* when the setter was installed (writable); without a setter the assignment has no
\* effect on the property (it is ignored, or a TypeError in strict mode).
ReplWrite(s, v) ==
    /\ s \in ReplSlots
    /\ UNCHANGED <<id, mod, lazyLoadedValue, prop, writable, check, ret, loads,
                   throws, reread, rlast, weakVars, promVars, depVars, pendVars, sigVars, streamVars>>
    /\ IF writable
       THEN /\ setterCalled' = [setterCalled EXCEPT ![s] = TRUE]
            /\ value' = [value EXCEPT ![s] = v]
            /\ lastValue' = [lastValue EXCEPT ![s] = None]
            /\ extValue' = Written(extValue, s, v)
       ELSE UNCHANGED <<setterCalled, value, lastValue, extValue>>

(***************************************************************************)
(* Claims about the lazy property binder, checked under SpecLazy.          *)
(***************************************************************************)
NoThrows == \A b \in Batches : throws[b] = 0

\* require(id) calls made on behalf of the defineLazyProperties batches registered
\* with loader identifier i
RequireCallsById(i) ==
    SumOver([b \in LazyBatches |-> IF id[b] = i THEN RequireCalls(b) ELSE 0], LazyBatches)

\* reading a key again, with no write of it in between, returns the same value
ReadTwiceSame ==
    \A s \in LazySlots :
        (lastValue[s] # None /\ lastValue'[s] # None) => lastValue'[s] = lastValue[s]

\* C1 as stated: reading K twice without an intervening write returns the identical
\* value, and (the loader not throwing) require is called at most once per loader
\* identifier over any sequence of reads.
C1_Original ==
    [][ReadTwiceSame /\ (NoThrows' => \A i \in Ids : RequireCallsById(i)' <= 1)]_vars

\* C1 as amended: reading K twice without an intervening write returns the identical
\* value, and (the loader not throwing) require is called at most once per call of
\* defineLazyProperties; two calls registered with the same identifier call it once each.
C1_ReadStableLoadOncePerCall ==
    [][ReadTwiceSame /\ (NoThrows' => \A b \in LazyBatches : RequireCalls(b)' <= 1)]_vars

\* a key was read twice in a row, and both batches, registered with the same
\* identifier, have loaded it
C1_Witness ==
    /\ reread /\ ret = Returned /\ NoThrows
    /\ id[1] = id[2]
    /\ loads[1] = 1 /\ loads[2] = 1
    /\ \A s \in LazySlots : lastValue[s] # None

\* the slots of batch b whose first access was a successful read
ReadFirstSlots(b) ==
    {s \in LazySlots : s[1] = b /\ extValue[s] \in {ReadFirst, Overwritten}}

\* C2: per call of defineLazyProperties, the first read of any key loads the module
\* exactly once; once it is loaded no read of any key of the batch calls require
\* again, and every read of a key never written returns module[key].
C2_OneLoadServesBatch ==
    [][\A b \in LazyBatches :
         /\ loads'[b] <= 1
         /\ ReadFirstSlots(b)' # {} => (loads'[b] = 1 /\ mod'[b] = id[b])
         /\ mod[b] # Undefined => RequireCalls(b)' = RequireCalls(b)
         /\ \A s \in LazySlots :
              (s[1] = b /\ extValue'[s] = ReadFirst) =>
                  lastValue'[s] = ModuleExports(id[b])[s[2]]]_vars

\* the scenario M = {foo: 1, bar: 2}: both keys read, one load
C2_Witness ==
    /\ id[1] = "M" /\ NoThrows
    /\ lastValue[<<1, "bar">>] = "2" /\ lastValue[<<1, "foo">>] = "1"
    /\ extValue[<<1, "bar">>] = ReadFirst /\ extValue[<<1, "foo">>] = ReadFirst
    /\ loads[1] = 1

\* s was written before its first read; its last written value is extValue[s]
WrittenFirst(s) == extValue[s] \notin {None, ReadFirst, Overwritten}

\* C3: for a property of defineLazyProperties or of a writable
\* defineReplaceableLazyAttribute that was written before its first read, every later
\* read returns the written value (unless the check callback throws) and calls
\* require neither successfully nor unsuccessfully.
C3_WriteBypassesLoader ==
    [][\A s \in Slots :
         (WrittenFirst(s) /\ (LazyRead(s) \/ ReplRead(s))) =>
             /\ loads' = loads /\ throws' = throws
             /\ \/ ret' = Returned /\ lastValue'[s] = extValue[s]
                \/ check /\ s \in ReplSlots /\ ret' = ThrewCheck]_vars

\* a lazy slot and the replaceable slot were written first and then read; the
\* replaceable batch never called require
C3_Witness ==
    /\ \E s \in LazySlots : WrittenFirst(s) /\ lastValue[s] = extValue[s]
                            /\ RequireCalls(s[1]) = 0
    /\ \E s \in ReplSlots : WrittenFirst(s) /\ lastValue[s] = extValue[s]
                            /\ setterCalled[s] /\ RequireCalls(ReplBatch) = 0

\* C4: when require throws during a read, the read throws, nothing is cached (mod,
\* the cached values and the property stay as they were, the accessor stays
\* installed), and the next read through the accessor calls require again.
C4_LoaderFailureNotCached ==
    [][\A s \in Slots :
         /\ ((LazyRead(s) \/ ReplRead(s)) /\ throws' # throws) =>
               /\ ret' = ThrewRequire
               /\ mod' = mod /\ mod[s[1]] = Undefined /\ loads' = loads
               /\ lazyLoadedValue' = lazyLoadedValue /\ prop' = prop
               /\ value' = value /\ setterCalled' = setterCalled
               /\ lastValue' = lastValue
               /\ s \in LazySlots => prop'[s] = Accessor
         /\ ( /\ throws[s[1]] > 0 /\ loads[s[1]] = 0
              /\ \/ LazyRead(s) /\ prop[s].kind = "accessor"
                 \/ ReplRead(s) /\ ~setterCalled[s] /\ ret' # ThrewCheck ) =>
               RequireCalls(s[1])' = RequireCalls(s[1]) + 1]_vars

\* a read failed because require threw, and a later read of the same key succeeded
C4_Witness ==
    \E s \in LazySlots :
        /\ throws[s[1]] = 1 /\ loads[s[1]] = 1
        /\ extValue[s] = ReadFirst
        /\ lastValue[s] = ModuleExports(id[s[1]])[s[2]] /\ lastValue[s] # Undefined

\* C5 as stated: a read caches the value and replaces the accessor with a plain
\* writable value if and only if the value extracted from the module is not undefined.
C5_Original ==
    \A s \in LazySlots :
        extValue[s] = ReadFirst =>
            (prop[s].kind = "data" <=> ModuleExports(id[s[1]])[s[2]] # Undefined)

\* C5 as amended: a read through the accessor always stores the extracted value
\* module[key] in lazyLoadedValue and replaces the accessor with a plain writable
\* value holding it, also when that value is undefined; before any read or write the
\* accessor is in place.
C5_ReadAlwaysReplaces ==
    \A s \in LazySlots :
        /\ extValue[s] = ReadFirst =>
              /\ prop[s] = DataProp(ModuleExports(id[s[1]])[s[2]])
              /\ lazyLoadedValue[s] = ModuleExports(id[s[1]])[s[2]]
        /\ extValue[s] = None => prop[s] = Accessor

\* the key baz, absent from M, was read: the property is now a plain undefined value
C5_Witness ==
    /\ id[2] = "M" /\ extValue[<<2, "baz">>] = ReadFirst
    /\ prop[<<2, "baz">>] = DataProp(Undefined)
    /\ extValue[<<1, "foo">>] = ReadFirst /\ prop[<<1, "foo">>] = DataProp("1")

(***************************************************************************)
(* class WeakReference.  The target object is Obj.  The weak-reference     *)
(* substrate: #weak.deref() yields the target while it is alive and        *)
(* undefined once it was collected; the collector may take the target only *)
(* when no strong path to it exists, that is, when neither #strong nor any *)
(* other holder (extRefs) refers to it.                                    *)
(***************************************************************************)
Obj == "obj"

\* this.#weak.deref()
Deref(a) == IF a THEN Obj ELSE Undefined

\* constructor(object): the caller holds the object it passes
WeakInit ==
    /\ refCount = 0
    /\ strong = Null
    /\ alive = TRUE
    /\ extRefs = TRUE
    /\ wret = 0
    /\ gret = None
    /\ calls = << >>
    /\ aliveAtIncFromZero = FALSE

\* an incRef() that never takes a strong hold
IncStrong_NoPin(rc, s, a) == s

\* the strong hold incRef() leaves, given the incremented count
IncStrong(rc, s, a) ==
    IF rc = 1
    THEN (IF Deref(a) # Undefined THEN Deref(a) ELSE s)
    ELSE s

\* a decRef() that never releases the strong hold
DecStrong_Keeps(rc, s) == s

\* the strong hold decRef() leaves, given the decremented count
DecStrong(rc, s) == IF rc = 0 THEN Null ELSE s

\* a decRef() that refuses to go below zero
DecCount_Clamped(rc) == IF rc > 0 THEN rc - 1 ELSE 0

\* the count decRef() leaves
DecCount(rc) == rc - 1

\* an incRef() that returns the count it found (`return this.#refCount++`)
IncReturn_Old(old, new) == old

\* the value incRef() returns: the count after the increment
IncReturn(old, new) == new

incRef ==
    /\ Len(calls) < MaxCalls
    /\ refCount' = refCount + 1
    /\ strong' = IncStrong(refCount', strong, alive)
    /\ wret' = IncReturn(refCount, refCount')
    /\ calls' = Append(calls, [op |-> "incRef", ret |-> wret'])
    /\ aliveAtIncFromZero' = IF refCount = 0 THEN alive ELSE aliveAtIncFromZero
    /\ UNCHANGED <<alive, extRefs, gret, lazyVars, promVars, depVars, pendVars, sigVars, streamVars>>

decRef ==
    /\ Len(calls) < MaxCalls
    /\ refCount' = DecCount(refCount)
    /\ strong' = DecStrong(refCount', strong)
    /\ wret' = refCount'
    /\ calls' = Append(calls, [op |-> "decRef", ret |-> refCount'])
    /\ UNCHANGED <<alive, extRefs, gret, aliveAtIncFromZero, lazyVars, promVars, depVars, pendVars, sigVars, streamVars>>

\* a get() that answers from the strong hold
GetValue_Strong(rc, s, a) == IF s = Null THEN Undefined ELSE s

\* the value get() returns
GetValue(rc, s, a) == Deref(a)

get ==
    /\ gret' = GetValue(refCount, strong, alive)
    /\ UNCHANGED <<refCount, strong, alive, extRefs, wret, calls, aliveAtIncFromZero,
                   lazyVars, promVars, depVars, pendVars, sigVars, streamVars>>

\* the other holders of the target let go of it
DropExternal ==
    /\ extRefs
    /\ extRefs' = FALSE
    /\ UNCHANGED <<refCount, strong, alive, wret, gret, calls, aliveAtIncFromZero,
                   lazyVars, promVars, depVars, pendVars, sigVars, streamVars>>

\* the garbage collector takes the target
Collect ==
    /\ alive
    /\ ~extRefs
    /\ strong = Null
    /\ alive' = FALSE
    /\ UNCHANGED <<refCount, strong, extRefs, wret, gret, calls, aliveAtIncFromZero,
                   lazyVars, promVars, depVars, pendVars, sigVars, streamVars>>

(***************************************************************************)
(* Claims about WeakReference, checked under SpecWeak.                     *)
(***************************************************************************)
\* C6: the strong handle is non-null if and only if refCount > 0 and the target was
\* alive at the most recent increment from zero.
C6_StrongIffPinned ==
    (strong # Null) <=> (refCount > 0 /\ aliveAtIncFromZero)

\* the count went from zero to one after the target was collected: a positive count
\* with no strong hold, after an earlier pin and release
C6_Witness ==
    /\ refCount = 1 /\ strong = Null /\ ~alive
    /\ Len(calls) = 3 /\ calls[1].op = "incRef" /\ calls[2].op = "decRef"

\* the calls made so far are n calls of incRef followed by n calls of decRef
IncsThenDecs(c, n) ==
    /\ Len(c) = 2 * n
    /\ \A i \in 1..n : c[i].op = "incRef" /\ c[n + i].op = "decRef"

\* C7: for a fresh WeakReference and N >= 1, N calls of incRef followed by N calls of
\* decRef: incRef returned 1..N in order, the last decRef returns 0, the strong hold
\* is released, and a get() made then returns the target exactly when it is alive.
C7_BalancedIncDec ==
    [][\A n \in 1..MaxCalls :
         /\ IncsThenDecs(calls', n) =>
               /\ \A i \in 1..n : calls'[i].ret = i
               /\ calls'[2 * n].ret = 0
               /\ strong' = Null
         /\ (IncsThenDecs(calls, n) /\ get) =>
               gret' = IF alive THEN Obj ELSE Undefined]_vars

\* three incRef, three decRef, and the get() that follows still returns the live target
C7_Witness ==
    /\ IncsThenDecs(calls, 3) /\ wret = 0 /\ strong = Null
    /\ alive /\ gret = Obj /\ ~extRefs

\* C8: get() returns the target while it is alive and undefined once it was
\* collected, whatever refCount and the strong handle are, and changes neither.
C8_GetDerefsWeakOnly ==
    [][get => /\ gret' = IF alive THEN Obj ELSE Undefined
              /\ refCount' = refCount /\ strong' = strong
              /\ alive' = alive]_vars

\* get() returned undefined although the count is positive
C8_Witness == gret = Undefined /\ refCount > 0 /\ ~alive

RECURSIVE CountOp(_, _)
CountOp(c, op) ==
    IF c = << >> THEN 0
    ELSE (IF c[Len(c)].op = op THEN 1 ELSE 0) + CountOp(SubSeq(c, 1, Len(c) - 1), op)

\* no decRef was called when the incRef calls before it were all matched
NeverBelowZero(c) ==
    \A n \in 0..Len(c) :
        CountOp(SubSeq(c, 1, n), "incRef") >= CountOp(SubSeq(c, 1, n), "decRef")

\* C9 as stated: refCount >= 0 in every state reachable by incRef and decRef calls.
C9_Original == refCount >= 0

\* C9 as amended: refCount is the number of incRef calls minus the number of decRef
\* calls, with no lower bound: it is >= 0 in every state reached by calls in which
\* decRef never outnumbers incRef, and a decRef at count 0 takes it to -1.
C9_SignedBalance ==
    /\ refCount = CountOp(calls, "incRef") - CountOp(calls, "decRef")
    /\ NeverBelowZero(calls) => refCount >= 0
    /\ ~NeverBelowZero(calls) => \E i \in 1..Len(calls) : calls[i].ret = -1

\* a well-nested use that came back to zero twice
C9_Witness ==
    /\ NeverBelowZero(calls) /\ Len(calls) = 6 /\ refCount = 0
    /\ calls[2].ret = 0

\* the target is pinned: the count left zero while the target was alive and has not
\* returned to zero
Pinned == refCount > 0 /\ aliveAtIncFromZero

\* C10: from an incRef that takes the count from 0 to 1 while the target is alive
\* until the count returns to 0, the target is not collected and get() returns it;
\* at count 0 the WeakReference holds no strong reference.
C10_PinKeepsAlive ==
    /\ Pinned => (alive /\ GetValue(refCount, strong, alive) = Obj)
    /\ refCount = 0 => strong = Null

\* after a pin was released the target was collected
C10_Witness ==
    /\ refCount = 0 /\ aliveAtIncFromZero /\ ~alive /\ wret = 0
    /\ Len(calls) >= 2

(***************************************************************************)
(* promisify(original).  The functions given to promisify differ in what   *)
(* the code reads of them: whether they are callable, what they hold under *)
(* the marker kCustomPromisifiedSymbol and under kCustomPromisifyArgsSymbol.*)
(***************************************************************************)
MaxGCalls == 2          \* calls made of the functions promisify returned
MaxCallbacks == 2       \* invocations of one injected callback after the call returned

Falsy == {Undefined, Null, "0", ""}
Truthy(v) == v \notin Falsy

CustomImpl == "customImpl"   \* a function the user stored under the marker
Adapter == "fn"              \* the function `fn` promisify builds
Originals == {"notCallable", "plain", "named", "named3", "custom", "badCustom",
              "nullCustom"}
\* typeof v === 'function'
IsFunction(v) == v \in {CustomImpl, Adapter} \cup (Originals \ {"notCallable"})

\* original[kCustomPromisifiedSymbol]
Custom(original) ==
    CASE original = "custom" -> CustomImpl
      [] original = "badCustom" -> "42"
      [] original = "nullCustom" -> Null
      [] OTHER -> Undefined

\* original[kCustomPromisifyArgsSymbol]
ArgumentNames(original) ==
    CASE original = "named" -> [defined |-> TRUE, names |-> <<"x", "y">>]
      [] original = "named3" -> [defined |-> TRUE, names |-> <<"x", "y", "z">>]
      [] OTHER -> [defined |-> FALSE, names |-> <<>>]

\* what the injected callback is invoked with: (err, ...values)
CbErrs == {Null, "0", "E1", "E2"}
CbValues == {<<>>, <<"1">>, <<"1", "2">>, <<"2", "1", "3">>}

\* a value a promise settles with: a primitive, or an object
Prim(v) == [t |-> "prim", v |-> v]
ObjVal(o) == [t |-> "obj", o |-> o]

NoPromise == [state |-> "none", value |-> Prim(Undefined)]
Pending == [state |-> "pending", value |-> Prim(Undefined)]
Fulfilled(v) == [state |-> "fulfilled", value |-> v]
Rejected(v) == [state |-> "rejected", value |-> v]

Settle_Last(p, outcome) == outcome
\* resolve and reject of a promise act on a pending promise only
Settle(p, outcome) == IF p.state = "pending" THEN outcome ELSE p

\* a property descriptor of the marker, or its absence
Absent == [present |-> FALSE, value |-> Undefined, enumerable |-> FALSE,
           writable |-> FALSE, configurable |-> FALSE]
MarkerOf(f) == [present |-> TRUE, value |-> f, enumerable |-> FALSE,
                writable |-> FALSE, configurable |-> TRUE]

\* a call of resolve or reject, with what the callback was given as err, if by it
NoAttempt == [by |-> None, err |-> Undefined]
Attempt(by, err) == [by |-> by, err |-> err]

NoSettle == [by |-> None, err |-> Undefined, values |-> <<>>]
ByCallback(err, values) == [by |-> "callback", err |-> err, values |-> values]
ByThrow == [by |-> "throw", err |-> "thrown", values |-> <<>>]
BySink == [by |-> "sink", err |-> "sinkError", values |-> <<>>]

PromInit ==
    /\ pfn = [outcome |-> None, original |-> None, fn |-> None]
    /\ marker = Absent
    /\ promise = NoPromise
    /\ gout = None
    /\ gcalls = 0
    /\ dep0174 = 0
    /\ first = NoSettle
    /\ latest = NoAttempt
    /\ origCalls = 0
    /\ cbCount = 0
    /\ promiseReturns = 0

\* validateFunction(original, 'original')
OriginalInvalid(original) == ~IsFunction(original)

UsesCustom_Never(original) == FALSE
\* if (original[kCustomPromisifiedSymbol])
UsesCustom(original) == Truthy(Custom(original))

CustomInvalid_Never(original) == FALSE
\* validateFunction(fn, 'util.promisify.custom')
CustomInvalid(original) == UsesCustom(original) /\ ~IsFunction(Custom(original))

PromisifyThrows(original) == OriginalInvalid(original) \/ CustomInvalid(original)

promisify(original) ==
    /\ pfn' = IF PromisifyThrows(original)
              THEN [outcome |-> "threw", original |-> original, fn |-> None]
              ELSE [outcome |-> Returned, original |-> original,
                    fn |-> IF UsesCustom(original) THEN Custom(original) ELSE Adapter]
    /\ marker' = IF ~PromisifyThrows(original) /\ UsesCustom(original)
                 THEN MarkerOf(Custom(original)) ELSE marker
    /\ promise' = NoPromise
    /\ gout' = None
    /\ first' = NoSettle
    /\ latest' = NoAttempt
    /\ origCalls' = 0
    /\ cbCount' = 0
    /\ UNCHANGED <<gcalls, dep0174, promiseReturns, lazyVars, weakVars, depVars, pendVars, sigVars, streamVars>>

(***************************************************************************)
(* The callback `fn` appends to the arguments: (err, ...values) => ...     *)
(***************************************************************************)
\* if (err)
IsError(err) == Truthy(err)

RejectWith_Generic(err) == Rejected(Prim("Error"))
\* return reject(err)
RejectWith(err) == Rejected(Prim(err))

\* values[i - 1] of the JavaScript array: undefined past its end
ValueAt(values, i) == IF i \in DOMAIN values THEN values[i] ELSE Undefined

UseNames_AnyValue(argumentNames, values) == argumentNames.defined /\ Len(values) > 0
\* argumentNames !== undefined && values.length > 1
UseNames(argumentNames, values) == argumentNames.defined /\ Len(values) > 1

NamedObj_Shifted(names, values) ==
    [n \in {names[i] : i \in DOMAIN names} |->
        LET last == CHOOSE i \in DOMAIN names :
                        names[i] = n /\ \A j \in DOMAIN names : names[j] = n => j <= i
        IN ValueAt(values, last + 1)]
\* for (i = 0; i < argumentNames.length; i++) obj[argumentNames[i]] = values[i]
NamedObj(names, values) ==
    [n \in {names[i] : i \in DOMAIN names} |->
        LET last == CHOOSE i \in DOMAIN names :
                        names[i] = n /\ \A j \in DOMAIN names : names[j] = n => j <= i
        IN ValueAt(values, last)]

\* the call of resolve or reject the callback makes
CallbackSettle(argumentNames, err, values) ==
    IF IsError(err) THEN RejectWith(err)
    ELSE IF UseNames(argumentNames, values)
         THEN Fulfilled(ObjVal(NamedObj(argumentNames.names, values)))
         ELSE Fulfilled(Prim(ValueAt(values, 1)))

\* how Reflect.apply(original, this, args) ends: it returns a value that is not a
\* promise, it returns a promise, or it throws
FnEnds == {"value", "promise", "throw"}
\* what `original` does with the callback before it returns: nothing, or one call
SyncCallbacks == {NoSettle} \cup {ByCallback(e, v) : e \in CbErrs, v \in CbValues}

\* isPromise(Reflect.apply(original, this, args))
Warns(end) == end = "promise"

\* A call of the adapter `fn`.  The executor of the promise runs inside the call:
\* it applies `original`, which may invoke the callback before it returns, and it
\* emits the warning DEP0174 if `original` returned a promise.  What the executor
\* throws rejects the promise, if nothing settled it before.  sinkOk: whether
\* process.emitWarning returns.
Call(sync, end, sinkOk) ==
    /\ pfn.outcome = Returned
    /\ pfn.fn = Adapter
    /\ gcalls < MaxGCalls
    /\ ~Warns(end) => sinkOk
    /\ LET p1 == IF sync.by = "callback"
                 THEN Settle(Pending, CallbackSettle(ArgumentNames(pfn.original),
                                                     sync.err, sync.values))
                 ELSE Pending
           p2 == IF end = "throw" THEN Settle(p1, Rejected(Prim(ByThrow.err))) ELSE p1
           p3 == IF Warns(end) /\ ~sinkOk
                 THEN Settle(p2, Rejected(Prim(BySink.err))) ELSE p2
       IN /\ promise' = p3
          /\ first' = IF sync.by = "callback" THEN sync
                      ELSE IF end = "throw" THEN ByThrow
                      ELSE IF Warns(end) /\ ~sinkOk THEN BySink
                      ELSE NoSettle
    /\ latest' = IF Warns(end) /\ ~sinkOk THEN Attempt(BySink.by, BySink.err)
                 ELSE IF end = "throw" THEN Attempt(ByThrow.by, ByThrow.err)
                 ELSE IF sync.by = "callback" THEN Attempt(sync.by, sync.err)
                 ELSE NoAttempt
    /\ dep0174' = dep0174 + (IF Warns(end) THEN 1 ELSE 0)
    /\ promiseReturns' = promiseReturns + (IF Warns(end) THEN 1 ELSE 0)
    /\ gout' = Returned
    /\ gcalls' = gcalls + 1
    /\ origCalls' = origCalls + 1
    /\ cbCount' = 0
    /\ UNCHANGED <<pfn, marker, lazyVars, weakVars, depVars, pendVars, sigVars, streamVars>>

\* `original` invokes the callback after the call of the adapter returned
Callback(err, values) ==
    /\ promise.state # "none"
    /\ cbCount < MaxCallbacks
    /\ promise' = Settle(promise, CallbackSettle(ArgumentNames(pfn.original), err, values))
    /\ first' = IF promise.state = "pending" THEN ByCallback(err, values) ELSE first
    /\ latest' = Attempt("callback", err)
    /\ cbCount' = cbCount + 1
    /\ UNCHANGED <<pfn, marker, gout, gcalls, dep0174, origCalls, promiseReturns,
                   lazyVars, weakVars, depVars, pendVars, sigVars, streamVars>>

\* A call of the custom implementation promisify returned: promisify built no
\* adapter, so nothing applies `original` with an injected callback.
CallCustom ==
    /\ pfn.outcome = Returned
    /\ pfn.fn = CustomImpl
    /\ gcalls < MaxGCalls
    /\ gcalls' = gcalls + 1
    /\ UNCHANGED <<pfn, marker, promise, gout, dep0174, first, latest, origCalls, cbCount,
                   promiseReturns, lazyVars, weakVars, depVars, pendVars, sigVars, streamVars>>

\* C24: for a property of defineReplaceableLazyAttribute given a check callback,
\* every read runs the check, whatever the slot holds (nothing yet, a value resolved
\* from the module, a value the setter stored); a read whose check throws fails and
\* does not call require(id).
C24_CheckOnEveryRead ==
    check =>
        /\ rlast.phase # None => rlast.checked
        /\ ret = "throw:check" => (rlast.phase # None /\ ~rlast.loaded)

C24_Witness ==
    /\ check
    /\ rlast = [phase |-> "set", checked |-> TRUE, loaded |-> FALSE]
    /\ ret = "throw:check"
    /\ \A b \in Batches : loads[b] = 0 /\ throws[b] = 0

C24_WitnessResolved ==
    /\ check
    /\ rlast = [phase |-> "resolved", checked |-> TRUE, loaded |-> FALSE]
    /\ ret = "throw:check"

C24_WitnessUnresolved ==
    /\ check
    /\ rlast = [phase |-> "unresolved", checked |-> TRUE, loaded |-> FALSE]
    /\ ret = "throw:check"

(***************************************************************************)
(* Claims about promisify.                                                 *)
(***************************************************************************)
\* the callback whose invocation settled the promise reported an error
CbErrorReported == first.by = "callback" /\ first.err \in {"E1", "E2"}
\* the callback whose invocation settled the promise reported no error
CbNoError == first.by = "callback" /\ first.err \in {Null, "0"}

\* C11: when the injected callback is invoked with a truthy first argument (and
\* nothing settled the promise before), the promise the adapter returned is
\* rejected with exactly that value.
C11_CallbackErrorRejects ==
    CbErrorReported =>
        promise = [state |-> "rejected", value |-> [t |-> "prim", v |-> first.err]]

C11_Witness ==
    /\ pfn.fn = Adapter
    /\ first = [by |-> "callback", err |-> "E2", values |-> <<"1", "2">>]
    /\ promise.state = "rejected"
    /\ cbCount = 1

\* C12: when `original` declares named result arguments and its callback reports
\* no error and more than one value, the promise is fulfilled with an object whose
\* keys are exactly the declared names, each mapped to the value at its position.
C12_NamedValuesFulfil ==
    (CbNoError /\ ArgumentNames(pfn.original).defined /\ Len(first.values) > 1) =>
        LET names == ArgumentNames(pfn.original).names IN
        /\ promise.state = "fulfilled"
        /\ promise.value.t = "obj"
        /\ DOMAIN promise.value.o = {names[i] : i \in DOMAIN names}
        /\ \A i \in DOMAIN names :
               promise.value.o[names[i]] =
                   IF i <= Len(first.values) THEN first.values[i] ELSE Undefined

C12_Witness ==
    /\ pfn.original = "named"
    /\ first = [by |-> "callback", err |-> Null, values |-> <<"1", "2">>]
    /\ promise.state = "fulfilled"
    /\ promise.value.t = "obj"
    /\ promise.value.o["x"] = "1"
    /\ promise.value.o["y"] = "2"

\* C13: when the callback reports no error and `original` declares no named result
\* arguments or the callback produced at most one value, the promise is fulfilled
\* with the first value produced alone; the other values are dropped.
C13_FirstValueOnly ==
    (CbNoError /\ (~ArgumentNames(pfn.original).defined \/ Len(first.values) <= 1)) =>
        /\ promise.state = "fulfilled"
        /\ promise.value.t = "prim"
        /\ promise.value.v = IF first.values = <<>> THEN Undefined ELSE first.values[1]

C13_Witness ==
    /\ pfn.original = "plain"
    /\ first = [by |-> "callback", err |-> Null, values |-> <<"2", "1", "3">>]
    /\ promise = [state |-> "fulfilled", value |-> [t |-> "prim", v |-> "2"]]

\* C14: when `original` holds a function under the marker, promisify returns that
\* very function, builds no adapter (so that `original` is never applied with an
\* injected callback), and defines the marker on the function as a non-enumerable,
\* non-writable, configurable property whose value is the function itself.
C14_CustomReturnedAsIs ==
    (pfn.outcome = Returned /\ pfn.original = "custom") =>
        /\ pfn.fn = "customImpl"
        /\ marker = [present |-> TRUE, value |-> "customImpl", enumerable |-> FALSE,
                     writable |-> FALSE, configurable |-> TRUE]
        /\ origCalls = 0
        /\ promise.state = "none"

C14_Witness ==
    /\ pfn.outcome = Returned
    /\ pfn.original = "custom"
    /\ marker.present
    /\ gcalls = 2

\* C15 as stated: promisify throws only if `original` is not callable.
C15_Original ==
    pfn.outcome = "threw" => pfn.original = "notCallable"

\* C15: promisify throws exactly if `original` is not callable or holds under the
\* marker a truthy value that is not a function; otherwise it returns a function.
\* A callback error rejects the promise, and no call of the adapter throws.
C15_ThrowsOnInvalidFnOrCustom ==
    /\ pfn.outcome = "threw" <=> pfn.original \in {"notCallable", "badCustom"}
    /\ pfn.outcome = Returned => pfn.fn \in {"customImpl", "fn"}
    /\ gout # "threw"
    /\ CbErrorReported => (promise.state = "rejected" /\ gout = Returned)

C15_Witness ==
    /\ pfn.outcome = "threw"
    /\ pfn.original = "badCustom"
    /\ gcalls > 0

\* C16 as stated: over any number of calls in which `original` returned a promise,
\* the warning DEP0174 is emitted once.
C16_Original ==
    dep0174 = (IF promiseReturns > 0 THEN 1 ELSE 0)

\* C25: the promise of one call of the adapter is settled by the first settling
\* event alone: by the first invocation of the callback, whatever `original` does
\* after it (it invokes the callback again, it throws), or by what `original`
\* throws before any invocation, and then the promise is rejected with the thrown
\* value and the call of the adapter returns.
C25_FirstSettlingEventWins ==
    /\ first.by = "callback" =>
           /\ promise.state = (IF first.err \in {"E1", "E2"} THEN "rejected" ELSE "fulfilled")
           /\ promise.state = "rejected" => promise.value = [t |-> "prim", v |-> first.err]
           /\ (promise.state = "fulfilled" /\ promise.value.t = "prim") =>
                  promise.value.v = (IF first.values = << >> THEN Undefined
                                     ELSE first.values[1])
           /\ (promise.state = "fulfilled" /\ promise.value.t = "obj") =>
                  promise.value.o["x"] = first.values[1]
    /\ first.by = "throw" =>
           /\ promise = [state |-> "rejected", value |-> [t |-> "prim", v |-> "thrown"]]
           /\ gout = "return"
    /\ first.by = None => promise.state \in {"none", "pending"}

C25_Witness ==
    /\ first = [by |-> "callback", err |-> Null, values |-> <<"1">>]
    /\ latest = [by |-> "callback", err |-> "E1"]
    /\ cbCount = 2
    /\ promise = [state |-> "fulfilled", value |-> [t |-> "prim", v |-> "1"]]

C25_WitnessThrowAfterCallback ==
    /\ first.by = "callback"
    /\ first.err = "E2"
    /\ latest.by = "throw"
    /\ promise.state = "rejected"
    /\ promise.value.v = "E2"

C25_WitnessThrowFirst ==
    /\ first.by = "throw"
    /\ latest = [by |-> "callback", err |-> Null]
    /\ promise.state = "rejected"

(***************************************************************************)
(* deprecate(fn, msg, code).  The wrappers exist from the start, as those   *)
(* lib/util.js creates when it is loaded.  Two of them share the code "X1", *)
(* one has the code "X2", two have no code (and the same message).         *)
(***************************************************************************)
MaxInvoke == 6          \* invocations of deprecate wrappers in one behaviour

Wrappers == {"a1", "a2", "b1", "n1", "n2"}
\* the wrappers pendingDeprecate returned
PendingWrappers == {"p1", "p2", "q1"}
AllWrappers == Wrappers \cup PendingWrappers
\* the `code` argument the wrapper was created with
Code(w) ==
    CASE w \in {"a1", "a2", "p1", "p2"} -> "X1"
      [] w = "b1" -> "X2"
      [] OTHER -> Undefined
\* the `msg` argument the wrapper was created with
Msg(w) == IF Code(w) = Undefined THEN "msg" ELSE "msg " \o Code(w)

\* the arguments of an invocation, and whether it is a construction (new.target)
DArgs == {"p", "q"}
Hows == {"apply", "construct"}
\* how the wrapped function ends when it runs
FnOutcomes == {Returned, "throw:fn"}

\* Reflect.construct(fn, args, new.target) / Reflect.apply(fn, this, args)
FnResult(w, how, arg) == <<how, w, arg>>
NoResult == << >>

DepInit ==
    /\ noDeprecation = FALSE
    /\ warned = [w \in AllWrappers |-> FALSE]
    /\ codesWarned = {}
    /\ emitted = [w \in AllWrappers |-> 0]
    /\ invokedUnset = [w \in AllWrappers |-> 0]
    /\ invokes = 0
    /\ optPending = FALSE
    /\ optNoDeprecation = FALSE
    /\ plast = [w |-> None, arg |-> None, pending |-> FALSE, noDep |-> FALSE,
                sink |-> None, fnRuns |-> 0, outcome |-> None, result |-> NoResult]
    /\ dlast = [w |-> None, how |-> None, arg |-> None, flag |-> FALSE, run |-> 0,
                sink |-> None,
                fnRuns |-> 0, outcome |-> None, result |-> NoResult]

Suppressed_Never == FALSE
\* if (!process.noDeprecation) emitDeprecationWarning()
Suppressed == noDeprecation

\* if (!warned && shouldEmitWarning()), with the default shouldEmitWarning
Emits(w) == ~Suppressed /\ ~warned[w]

WarnedAfter_Unchanged(w) == warned
WarnedAfter_Always(w) == [warned EXCEPT ![w] = TRUE]
\* warned = true
WarnedAfter(w) == IF Emits(w) THEN [warned EXCEPT ![w] = TRUE] ELSE warned

CodeWarned_Never(code) == FALSE
\* codesWarned.has(code)
CodeWarned(code) == code \in codesWarned

\* emitWarning(msg, 'DeprecationWarning', code, deprecated) or
\* process.emitWarning(msg, 'DeprecationWarning', deprecated) is called
SinkCalled(w) == Emits(w) /\ (Code(w) = Undefined \/ ~CodeWarned(Code(w)))

FnRuns_Always(sinkOk) == 1
\* what the sink throws leaves the wrapper before it reaches fn
FnRuns(sinkOk) == IF sinkOk THEN 1 ELSE 0

\* An invocation of the wrapper `deprecated`.  sinkOk: whether the warning sink,
\* if called, returns; fnEnd: how fn ends, if it runs.
Invoke(w, how, arg, sinkOk, fnEnd) ==
    /\ invokes < MaxInvoke
    /\ ~SinkCalled(w) => sinkOk
    /\ ~sinkOk => fnEnd = Returned
    /\ warned' = WarnedAfter(w)
    /\ emitted' = IF SinkCalled(w) THEN [emitted EXCEPT ![w] = @ + 1] ELSE emitted
    /\ codesWarned' = IF SinkCalled(w) /\ Code(w) # Undefined /\ sinkOk
                      THEN codesWarned \cup {Code(w)} ELSE codesWarned
    /\ dlast' = [w |-> w, how |-> how, arg |-> arg, flag |-> noDeprecation,
                 run |-> IF dlast.w = w /\ dlast.flag THEN dlast.run + 1 ELSE 0,
                 sink |-> IF ~SinkCalled(w) THEN None
                          ELSE IF sinkOk THEN Returned ELSE "throw:sink",
                 fnRuns |-> FnRuns(sinkOk),
                 outcome |-> IF FnRuns(sinkOk) = 0 THEN "throw:sink" ELSE fnEnd,
                 result |-> IF FnRuns(sinkOk) = 1 /\ fnEnd = Returned
                            THEN FnResult(w, how, arg) ELSE NoResult]
    /\ invokedUnset' = IF noDeprecation THEN invokedUnset
                       ELSE [invokedUnset EXCEPT ![w] = @ + 1]
    /\ invokes' = invokes + 1
    /\ UNCHANGED <<noDeprecation, lazyVars, weakVars, promVars, pendVars, sigVars, streamVars>>

\* user code assigns process.noDeprecation
SetNoDeprecation(b) ==
    /\ noDeprecation # b
    /\ noDeprecation' = b
    /\ UNCHANGED <<warned, codesWarned, emitted, invokedUnset, invokes, dlast,
                   lazyVars, weakVars, promVars, pendVars, sigVars, streamVars>>

\* warnings emitted so far with the code c
EmittedWithCode(c) == SumOver(emitted, {w \in Wrappers : Code(w) = c})
\* invocations made so far, with the flag unset, of wrappers with the code c
InvokedWithCode(c) == SumOver(invokedUnset, {w \in Wrappers : Code(w) = c})

(***************************************************************************)
(* Claims about deprecate and about the warning sink.                      *)
(***************************************************************************)
\* C17: whatever the interleaving of the invocations of the wrappers that share a
\* code, at most one warning with that code is ever emitted, and exactly one once
\* one of them was invoked with the no-deprecation flag unset.
C17_OneWarningPerCode ==
    \A c \in {"X1", "X2"} :
        /\ EmittedWithCode(c) <= 1
        /\ InvokedWithCode(c) > 0 => EmittedWithCode(c) = 1

C17_Witness ==
    /\ invokedUnset["a1"] = 5
    /\ invokedUnset["a2"] = 1
    /\ emitted["a1"] = 1
    /\ emitted["a2"] = 0

\* C18: a wrapper without a code emits exactly one warning once it was invoked with
\* the flag unset, however often it is invoked, and each such wrapper emits its own.
C18_CodelessOncePerWrapper ==
    \A w \in {"n1", "n2"} : emitted[w] = (IF invokedUnset[w] > 0 THEN 1 ELSE 0)

C18_Witness ==
    /\ invokedUnset["n1"] = 3
    /\ invokedUnset["n2"] = 2
    /\ emitted["n1"] = 1
    /\ emitted["n2"] = 1
    /\ Msg("n1") = Msg("n2")

\* C19: an invocation made while the no-deprecation flag is set emits no warning,
\* runs the wrapped function exactly once with the arguments given, and ends as
\* the wrapped function ends: it returns what the function returns.
C19_SuppressedStillRunsFn ==
    (dlast.w # None /\ dlast.flag) =>
        /\ dlast.sink = None
        /\ dlast.fnRuns = 1
        /\ dlast.outcome \in {"return", "throw:fn"}
        /\ dlast.outcome = "return" <=> dlast.result = <<dlast.how, dlast.w, dlast.arg>>

C19_Witness ==
    /\ dlast.flag
    /\ dlast.w = "a1"
    /\ dlast.result = <<"apply", "a1", "q">>
    /\ emitted["a1"] = 0
    /\ invokes = 2

\* C26: invocations made while the no-deprecation flag is set consume nothing: a
\* wrapper never invoked with the flag unset has neither warned nor emitted, every
\* code in codesWarned was put there by an invocation made with the flag unset,
\* and the first invocation of a wrapper with the flag unset emits the warning,
\* however many suppressed invocations precede it, unless another wrapper with its
\* code was invoked with the flag unset before.
C26_SuppressedConsumesNothing ==
    /\ \A w \in Wrappers : invokedUnset[w] = 0 => (~warned[w] /\ emitted[w] = 0)
    /\ \A c \in codesWarned : InvokedWithCode(c) > 0
    /\ (/\ dlast.w # None
        /\ ~dlast.flag
        /\ invokedUnset[dlast.w] = 1
        /\ Code(dlast.w) # Undefined => InvokedWithCode(Code(dlast.w)) = 1) =>
           (dlast.sink = "return" /\ emitted[dlast.w] = 1)

C26_Witness ==
    /\ dlast.w = "a1"
    /\ ~dlast.flag
    /\ dlast.run = 2
    /\ dlast.sink = "return"
    /\ emitted["a1"] = 1
    /\ invokedUnset["a1"] = 1
    /\ codesWarned = {"X1"}

IsPendingDeprecation_IgnoresNoDeprecation == optPending
\* getOptionValue('--pending-deprecation') && !getOptionValue('--no-deprecation')
IsPendingDeprecation == optPending /\ ~optNoDeprecation

\* if (!warned && shouldEmitWarning()), with shouldEmitWarning = isPendingDeprecation
PendingEmits(w) == ~warned[w] /\ IsPendingDeprecation

\* process.emitWarning is called
PendingSinkCalled(w) == PendingEmits(w) /\ (Code(w) = Undefined \/ ~CodeWarned(Code(w)))

\* An invocation of the wrapper `deprecated` of pendingDeprecate.
InvokePending(w, arg, sinkOk, fnEnd) ==
    /\ invokes < MaxInvoke
    /\ ~PendingSinkCalled(w) => sinkOk
    /\ ~sinkOk => fnEnd = Returned
    /\ warned' = IF PendingEmits(w) THEN [warned EXCEPT ![w] = TRUE] ELSE warned
    /\ emitted' = IF PendingSinkCalled(w) THEN [emitted EXCEPT ![w] = @ + 1] ELSE emitted
    /\ codesWarned' = IF PendingSinkCalled(w) /\ Code(w) # Undefined /\ sinkOk
                      THEN codesWarned \cup {Code(w)} ELSE codesWarned
    /\ plast' = [w |-> w, arg |-> arg, pending |-> optPending, noDep |-> optNoDeprecation,
                 sink |-> IF ~PendingSinkCalled(w) THEN None
                          ELSE IF sinkOk THEN Returned ELSE "throw:sink",
                 fnRuns |-> FnRuns(sinkOk),
                 outcome |-> IF FnRuns(sinkOk) = 0 THEN "throw:sink" ELSE fnEnd,
                 result |-> IF FnRuns(sinkOk) = 1 /\ fnEnd = Returned
                            THEN FnResult(w, "apply", arg) ELSE NoResult]
    /\ invokedUnset' = IF optPending /\ ~optNoDeprecation
                       THEN [invokedUnset EXCEPT ![w] = @ + 1] ELSE invokedUnset
    /\ invokes' = invokes + 1
    /\ UNCHANGED <<noDeprecation, dlast, optPending, optNoDeprecation,
                   lazyVars, weakVars, promVars, sigVars, streamVars>>

\* the value getOptionValue('--pending-deprecation') returns changes
OptionPendingDeprecation(b) ==
    /\ optPending # b
    /\ optPending' = b
    /\ UNCHANGED <<optNoDeprecation, plast, depVars, lazyVars, weakVars, promVars, sigVars, streamVars>>

\* the value getOptionValue('--no-deprecation') returns changes
OptionNoDeprecation(b) ==
    /\ optNoDeprecation # b
    /\ optNoDeprecation' = b
    /\ UNCHANGED <<optPending, plast, depVars, lazyVars, weakVars, promVars, sigVars, streamVars>>

\* warnings emitted so far with the code c, by wrappers of either kind
EmittedWithCodeAll(c) == SumOver(emitted, {w \in AllWrappers : Code(w) = c})

\* C21: a wrapper of pendingDeprecate calls the sink only in an invocation made
\* while --pending-deprecation is set and --no-deprecation is not, at most once
\* per wrapper and, with the wrappers of deprecate, at most once per code; every
\* invocation runs fn once and ends as fn ends, whatever the options are.
C21_PendingGatedOnceFnAlways ==
    /\ \A w \in {"p1", "p2", "q1"} :
           /\ emitted[w] <= 1
           /\ invokedUnset[w] = 0 => emitted[w] = 0
    /\ EmittedWithCodeAll("X1") <= 1
    /\ plast.w # None =>
           /\ (~plast.pending \/ plast.noDep) => plast.sink = None
           /\ plast.fnRuns = 1
           /\ plast.outcome \in {"return", "throw:fn"}
           /\ plast.outcome = "return" <=> plast.result = <<"apply", plast.w, plast.arg>>

C21_Witness ==
    /\ plast.w = "p2"
    /\ plast.pending
    /\ plast.noDep
    /\ plast.result = <<"apply", "p2", "q">>
    /\ emitted["p1"] = 1
    /\ emitted["p2"] = 0
    /\ emitted["q1"] = 1
    /\ invokedUnset["p1"] = 2

(***************************************************************************)
(* convertToValidSignal(signal).  A string is a sequence of characters, so *)
(* that upper-casing is an operation on it.  `signals` is the table of the *)
(* platform, os.constants.signals, here six of its entries, listed in      *)
(* their enumeration order; SIGIOT is an alias of SIGABRT.                 *)
(***************************************************************************)
MaxSignalInput == 16    \* the numeric arguments tried are -1 .. MaxSignalInput, 999999

Num(n) == [t |-> "number", n |-> n, s |-> << >>]
Str(s) == [t |-> "string", n |-> 0, s |-> s]
OtherValue == [t |-> "undefined", n |-> 0, s |-> << >>]
NoValue == [t |-> None, n |-> 0, s |-> << >>]

signals ==
    << [name |-> <<"S", "I", "G", "H", "U", "P">>, number |-> 1],
       [name |-> <<"S", "I", "G", "I", "N", "T">>, number |-> 2],
       [name |-> <<"S", "I", "G", "A", "B", "R", "T">>, number |-> 6],
       [name |-> <<"S", "I", "G", "I", "O", "T">>, number |-> 6],
       [name |-> <<"S", "I", "G", "K", "I", "L", "L">>, number |-> 9],
       [name |-> <<"S", "I", "G", "T", "E", "R", "M">>, number |-> 15] >>

\* the characters with an upper-case form other than themselves that occur in the
\* arguments; "dotless i" is U+0131, whose upper-case form is "I"
LowerChars == <<"s", "i", "g", "t", "e", "r", "m", "n", "o", "f", "dotless i">>
UpperChars == <<"S", "I", "G", "T", "E", "R", "M", "N", "O", "F", "I">>
ToUpperChar(c) ==
    IF \E i \in DOMAIN LowerChars : LowerChars[i] = c
    THEN UpperChars[CHOOSE i \in DOMAIN LowerChars : LowerChars[i] = c]
    ELSE c
\* StringPrototypeToUpperCase(signal)
ToUpperCase(s) == [i \in DOMAIN s |-> ToUpperChar(s[i])]

\* the string arguments tried
StrInputs ==
    { <<"S", "I", "G", "T", "E", "R", "M">>, <<"s", "i", "g", "t", "e", "r", "m">>,
      <<"S", "i", "g", "T", "e", "r", "m">>, <<"s", "dotless i", "g", "t", "e", "r", "m">>,
      <<"S", "I", "G", "I", "N", "T">>, <<"s", "i", "g", "i", "n", "t">>,
      <<"s", "i", "g", "i", "o", "t">>, <<"S", "I", "G", "F", "O", "O">>,
      <<"t", "e", "r", "m">>, <<"1", "5">>, << >> }
SignalInputs ==
    {Num(n) : n \in (-1 .. MaxSignalInput) \cup {999999}}
        \cup {Str(s) : s \in StrInputs} \cup {OtherValue}

\* signals[name]: the number of the entry with that name, if there is one
SignalsHas(name) == \E i \in DOMAIN signals : signals[i].name = name
SignalsGet(name) == signals[CHOOSE i \in DOMAIN signals : signals[i].name = name].number

\* the mapping getSignalsToNamesMapping builds: for (const key in signals)
\* signalsToNamesMapping[signals[key]] = key, a later key replacing an earlier one
BuiltMapping ==
    [n \in {signals[i].number : i \in DOMAIN signals} |->
        signals[CHOOSE i \in DOMAIN signals :
                    /\ signals[i].number = n
                    /\ \A j \in DOMAIN signals : signals[j].number = n => j <= i].name]
NotBuilt == [built |-> FALSE, map |-> << >>]
Built == [built |-> TRUE, map |-> BuiltMapping]

SignalInit ==
    /\ signalsToNamesMapping = NotBuilt
    /\ sigIn = NoValue
    /\ sigOut = [outcome |-> None, n |-> 0, err |-> NoValue]
    /\ sigPrevIn = NoValue
    /\ sigPrevOut = [outcome |-> None, n |-> 0, err |-> NoValue]

\* getSignalsToNamesMapping(): the cached mapping, built on the first call
GetSignalsToNamesMapping == IF signalsToNamesMapping.built THEN signalsToNamesMapping ELSE Built

IsSignalNumber_Any(n) == TRUE
\* getSignalsToNamesMapping()[signal] is truthy: a name is a non-empty string
IsSignalNumber(n) ==
    /\ n \in DOMAIN GetSignalsToNamesMapping.map
    /\ GetSignalsToNamesMapping.map[n] # << >>

NameLookup_Exact(s) ==
    IF SignalsHas(s) THEN [found |-> TRUE, number |-> SignalsGet(s)]
    ELSE [found |-> FALSE, number |-> 0]
\* const signalName = signals[StringPrototypeToUpperCase(signal)]
NameLookup(s) ==
    IF SignalsHas(ToUpperCase(s))
    THEN [found |-> TRUE, number |-> SignalsGet(ToUpperCase(s))]
    ELSE [found |-> FALSE, number |-> 0]

SigReturn(n) == [outcome |-> Returned, n |-> n, err |-> NoValue]
\* throw new ERR_UNKNOWN_SIGNAL(signal)
SigThrow(signal) == [outcome |-> "throw:ERR_UNKNOWN_SIGNAL", n |-> 0, err |-> signal]

ConvertResult(signal) ==
    IF signal.t = "number" /\ IsSignalNumber(signal.n) THEN SigReturn(signal.n)
    ELSE IF signal.t = "string" /\ NameLookup(signal.s).found
                                /\ NameLookup(signal.s).number # 0
         THEN SigReturn(NameLookup(signal.s).number)
         ELSE SigThrow(signal)

convertToValidSignal(signal) ==
    /\ signalsToNamesMapping' = IF signal.t = "number" THEN GetSignalsToNamesMapping
                                ELSE signalsToNamesMapping
    /\ sigIn' = signal
    /\ sigOut' = ConvertResult(signal)
    /\ sigPrevIn' = sigIn
    /\ sigPrevOut' = sigOut
    /\ UNCHANGED <<lazyVars, weakVars, promVars, depVars, pendVars, streamVars>>

\* C22: for a numeric argument n, convertToValidSignal returns n if n is a signal
\* number of the table, and fails with the unknown-signal error carrying n if not.
C22_NumberValidIffInTable ==
    sigIn.t = "number" =>
        IF sigIn.n \in {1, 2, 6, 9, 15}
        THEN sigOut = [outcome |-> "return", n |-> sigIn.n, err |-> NoValue]
        ELSE sigOut = [outcome |-> "throw:ERR_UNKNOWN_SIGNAL", n |-> 0, err |-> sigIn]

C22_Witness ==
    /\ sigPrevIn = Num(15)
    /\ sigPrevOut.outcome = "return"
    /\ sigPrevOut.n = 15
    /\ sigIn = Num(999999)
    /\ sigOut.outcome = "throw:ERR_UNKNOWN_SIGNAL"
    /\ sigOut.err.n = 999999

\* the number the table maps the name to; 0 if the table has no such name
TableNumber(name) ==
    CASE name = <<"S", "I", "G", "H", "U", "P">> -> 1
      [] name = <<"S", "I", "G", "I", "N", "T">> -> 2
      [] name \in {<<"S", "I", "G", "A", "B", "R", "T">>, <<"S", "I", "G", "I", "O", "T">>} -> 6
      [] name = <<"S", "I", "G", "K", "I", "L", "L">> -> 9
      [] name = <<"S", "I", "G", "T", "E", "R", "M">> -> 15
      [] OTHER -> 0

\* C23: for a string argument s, convertToValidSignal returns the number the table
\* maps the upper-cased s to, and fails with the unknown-signal error if the table
\* has no such name; so two calls with case variants of one name end alike, and a
\* number returned for a string is returned unchanged when it is the argument.
C23_StringByUpperCasedName ==
    /\ sigIn.t = "string" =>
           IF TableNumber(ToUpperCase(sigIn.s)) # 0
           THEN sigOut = [outcome |-> "return", n |-> TableNumber(ToUpperCase(sigIn.s)),
                          err |-> NoValue]
           ELSE sigOut = [outcome |-> "throw:ERR_UNKNOWN_SIGNAL", n |-> 0, err |-> sigIn]
    /\ (sigIn.t = "string" /\ sigPrevIn.t = "string"
            /\ ToUpperCase(sigIn.s) = ToUpperCase(sigPrevIn.s)) =>
           (sigOut.outcome = sigPrevOut.outcome /\ sigOut.n = sigPrevOut.n)
    /\ (sigPrevIn.t = "string" /\ sigPrevOut.outcome = "return"
            /\ sigIn = Num(sigPrevOut.n)) =>
           sigOut = [outcome |-> "return", n |-> sigPrevOut.n, err |-> NoValue]

C23_Witness ==
    /\ sigPrevIn = Str(<<"s", "i", "g", "t", "e", "r", "m">>)
    /\ sigIn = Str(<<"S", "I", "G", "T", "E", "R", "M">>)
    /\ sigPrevOut.n = 15
    /\ sigOut = sigPrevOut

(***************************************************************************)
(* SyncWriteStream (lib/internal/fs/sync_write_stream.js).  The model      *)
(* follows one stream; constructing another one replaces it.               *)
(***************************************************************************)
MaxDestroy == 3         \* calls of _destroy made on one stream

\* the fd argument, and the value of options.autoClose (undefined: no such option)
FdArgs == {"1", "7", Null}
AutoCloseArgs == {Undefined, "true", "false", Null}
\* the err argument of _destroy
DestroyErrs == {Null, "E1", "E2"}

\* this.autoClose = options.autoClose === undefined ? true : options.autoClose
AutoCloseOf(option) == IF option = Undefined THEN "true" ELSE option

NoCallback == [calls |-> 0, err |-> None]

\* the state new SyncWriteStream(fd, options) leaves
Constructed(fd, option) ==
    /\ sfd' = fd
    /\ autoClose' = AutoCloseOf(option)
    /\ closes' = 0
    /\ closeFailed' = FALSE
    /\ destroys' = 0
    /\ destroyErr' = None
    /\ dcb' = NoCallback
    /\ wcb' = NoCallback

StreamInit ==
    /\ sfd = "1"
    /\ autoClose = AutoCloseOf(Undefined)
    /\ closes = 0
    /\ closeFailed = FALSE
    /\ destroys = 0
    /\ destroyErr = None
    /\ dcb = NoCallback
    /\ wcb = NoCallback

SyncWriteStream(fd, option) ==
    /\ Constructed(fd, option)
    /\ UNCHANGED <<lazyVars, weakVars, promVars, depVars, pendVars, sigVars>>

\* _write(chunk, encoding, cb): writeSync(this.fd, ...) returns, or it throws e and
\* the callback gets e; it throws when the fd is null
Write(writeOk) ==
    /\ sfd = Null => ~writeOk
    /\ wcb' = [calls |-> 1, err |-> IF writeOk THEN Undefined ELSE "e"]
    /\ UNCHANGED <<sfd, autoClose, closes, closeFailed, destroys, destroyErr, dcb,
                   lazyVars, weakVars, promVars, depVars, pendVars, sigVars>>

AlreadyDestroyed_Never(fd) == FALSE
\* if (this.fd === null)
AlreadyDestroyed(fd) == fd = Null

\* if (this.autoClose)
Closes(ac) == ac \notin {"false", Null}

\* _destroy(err, cb).  closeOk: whether closeSync(this.fd), if called, returns; what
\* it throws leaves _destroy before the fd is cleared and the callback invoked.
Destroy(err, closeOk) ==
    /\ destroys < MaxDestroy
    /\ destroys' = destroys + 1
    /\ destroyErr' = err
    /\ IF AlreadyDestroyed(sfd)
       THEN /\ closeOk
            /\ dcb' = [calls |-> 1, err |-> err]
            /\ UNCHANGED <<sfd, closes, closeFailed>>
       ELSE IF Closes(autoClose) /\ ~closeOk
       THEN /\ closeFailed' = TRUE
            /\ dcb' = NoCallback
            /\ UNCHANGED <<sfd, closes>>
       ELSE /\ closeOk
            /\ closes' = IF Closes(autoClose) THEN closes + 1 ELSE closes
            /\ sfd' = Null
            /\ dcb' = [calls |-> 1, err |-> err]
            /\ UNCHANGED closeFailed
    /\ UNCHANGED <<autoClose, wcb, lazyVars, weakVars, promVars, depVars, pendVars, sigVars>>

\* C27: if closeSync never threw, then over any sequence of _destroy calls the fd
\* was closed at most once, and only with autoClose true; once _destroy was called
\* the fd field is null; and the last _destroy invoked its callback exactly once,
\* with the error it was given.
C27_DestroyClosesOnce ==
    ~closeFailed =>
        /\ closes <= 1
        /\ closes = 1 => autoClose = "true"
        /\ destroys > 0 =>
               /\ sfd = Null
               /\ dcb = [calls |-> 1, err |-> destroyErr]

C27_Witness ==
    /\ ~closeFailed
    /\ destroys = 3
    /\ closes = 1
    /\ autoClose = "true"
    /\ sfd = Null
    /\ dcb = [calls |-> 1, err |-> "E2"]

(***************************************************************************)
(* The specifications.                                                     *)
(***************************************************************************)
Init == LazyInit /\ WeakInit /\ PromInit /\ DepInit /\ SignalInit /\ StreamInit

\* the same, with the arguments of the lazy properties fixed: they do not matter to
\* promisify and deprecate
InitUtil ==
    /\ Init
    /\ id = [b \in Batches |-> IF b = ReplBatch THEN "N" ELSE "M"]
    /\ writable
    /\ check

\* reads and writes of the properties installed by defineLazyProperties
NextLazy ==
    \/ \E s \in LazySlots : LazyRead(s)
    \/ \E s \in LazySlots, v \in WriteVals : LazyWrite(s, v)

\* reads and writes of the properties installed by defineReplaceableLazyAttribute
NextRepl ==
    \/ \E s \in ReplSlots : ReplRead(s)
    \/ \E s \in ReplSlots, v \in WriteVals : ReplWrite(s, v)

\* both kinds of lazy property, interleaved: the properties of the first call of
\* defineLazyProperties and those of defineReplaceableLazyAttribute
NextLazyAll ==
    \/ \E s \in FirstBatchSlots : LazyRead(s)
    \/ \E s \in FirstBatchSlots, v \in WriteVals : LazyWrite(s, v)
    \/ \E s \in ReplSlots : ReplRead(s)
    \/ \E s \in ReplSlots, v \in WriteVals : ReplWrite(s, v)

NextWeak ==
    \/ incRef
    \/ decRef
    \/ get
    \/ DropExternal
    \/ Collect

NextPromisify ==
    \/ \E original \in Originals : promisify(original)
    \/ \E sync \in SyncCallbacks, end \in FnEnds, sinkOk \in BOOLEAN : Call(sync, end, sinkOk)
    \/ \E err \in CbErrs, values \in CbValues : Callback(err, values)
    \/ CallCustom

\* the warning sink returns normally
NextDeprecate ==
    \/ \E w \in Wrappers, how \in Hows, arg \in DArgs, fnEnd \in FnOutcomes :
           Invoke(w, how, arg, TRUE, fnEnd)
    \/ \E b \in BOOLEAN : SetNoDeprecation(b)

\* One wrapper with a code, one without, and the adapter of a function with no
\* named result arguments, with a warning sink that returns or throws.
NextWarn ==
    \/ \E w \in {"a1", "n1"}, sinkOk \in BOOLEAN, fnEnd \in FnOutcomes :
           Invoke(w, "apply", "p", sinkOk, fnEnd)
    \/ promisify("plain")
    \/ \E sync \in {NoSettle, ByCallback(Null, <<"1">>)}, end \in FnEnds,
          sinkOk \in BOOLEAN : Call(sync, end, sinkOk)
    \/ \E err \in {Null, "E1"} : Callback(err, <<"1">>)

\* the wrappers of pendingDeprecate, and a wrapper of deprecate with their code
NextPending ==
    \/ \E w \in PendingWrappers, arg \in DArgs, fnEnd \in FnOutcomes :
           InvokePending(w, arg, TRUE, fnEnd)
    \/ Invoke("a1", "apply", "p", TRUE, Returned)
    \/ \E b \in BOOLEAN : OptionPendingDeprecation(b)
    \/ \E b \in BOOLEAN : OptionNoDeprecation(b)

NextSignal == \E signal \in SignalInputs : convertToValidSignal(signal)

NextStream ==
    \/ \E fd \in FdArgs, option \in AutoCloseArgs : SyncWriteStream(fd, option)
    \/ \E writeOk \in BOOLEAN : Write(writeOk)
    \/ \E err \in DestroyErrs, closeOk \in BOOLEAN : Destroy(err, closeOk)

SpecLazy == Init /\ [][NextLazy]_vars
SpecRepl == Init /\ [][NextRepl]_vars
SpecLazyAll == Init /\ [][NextLazyAll]_vars
SpecWeak == Init /\ [][NextWeak]_vars
SpecPromisify == InitUtil /\ [][NextPromisify]_vars
SpecDeprecate == InitUtil /\ [][NextDeprecate]_vars
SpecWarn == InitUtil /\ [][NextWarn]_vars
SpecPending == InitUtil /\ [][NextPending]_vars
SpecSignal == InitUtil /\ [][NextSignal]_vars
SpecStream == InitUtil /\ [][NextStream]_vars

=============================================================================
